---------------------------- MODULE Spec2Model ----------------------------
(***************************************************************************)
(* Verification model of the PDF form extract / edit / apply web app.      *)
(*                                                                         *)
(* Lengths.  Viewport pixels and PDF points are both held as integers      *)
(* counted in sixths (U(1) is one pixel or one point).  The session scale  *)
(* is 3/2, so a whole pixel maps to a multiple of 1/3 point and a whole    *)
(* point maps to a multiple of 1/2 pixel: every division below is exact.   *)
(***************************************************************************)
EXTENDS Integers, Sequences, FiniteSets, TLC

VARIABLES
    file,            \* App state: the selected file (0 = null)
    pages,           \* App state: the pdf.js page handles
    flattenedBytes,  \* App state: the flattened bytes (NoBytes = null)
    overlays,        \* App state: the overlay list
    loading,         \* App state: the loading flag
    selectedId,      \* App state: the selected overlay id (NoId = null)
    seqs,            \* the onFileSelected calls started so far, in order
    clock,           \* the value Date.now() returns
    applied,         \* the applyAndDownload calls that reached applyFields
    events,          \* number of user events handled so far
    seeded,          \* the file whose extraction last seeded the overlay list
    geo,             \* one run of the coordinate round trip
    fl,              \* one run of flattenWithPdfLib
    ex,              \* one run of extractFieldsWithPdfJs
    ap,              \* one run of applyFields
    bf               \* the byte buffers of one session and the loads they went to

vars == <<file, pages, flattenedBytes, overlays, loading, selectedId,
          seqs, clock, applied, events, seeded, geo, fl, ex, ap, bf>>

appVars == <<file, pages, flattenedBytes, overlays, loading, selectedId,
             seqs, clock, applied, events, seeded>>

---------------------------------------------------------------------------
(* Arithmetic helpers                                                      *)

U(n) == 6 * n

Min(a, b) == IF a <= b THEN a ELSE b

Max(a, b) == IF a >= b THEN a ELSE b

Abs(a) == IF a >= 0 THEN a ELSE 0 - a

---------------------------------------------------------------------------
(* Coordinate transform                                                    *)

\* getViewport({ scale: 1.5, ... }): the scale as the fraction ScaleNum/ScaleDen
ScaleNum == 3

ScaleDen == 2

\* The page box of the fixture page, in points
PageW == 612

PageH == 792

Rotations == {0, 90, 180, 270}

\* page.getViewport({ scale: 1.5, rotation }): the pdf.js viewport transform
\* [a*s, b*s, c*s, d*s, e, f] of a page whose box is [0, 0, w, h], kept as the
\* rotation part a, b, c, d and the translation e, f (in sixths of a pixel).
getViewport(rot, w, h) ==
    CASE rot = 0   -> [a |-> 1,  b |-> 0,  c |-> 0,  d |-> -1,
                       e |-> 0, f |-> (h * ScaleNum) \div ScaleDen]
      [] rot = 90  -> [a |-> 0,  b |-> 1,  c |-> 1,  d |-> 0,
                       e |-> 0, f |-> 0]
      [] rot = 180 -> [a |-> -1, b |-> 0,  c |-> 0,  d |-> 1,
                       e |-> (w * ScaleNum) \div ScaleDen, f |-> 0]
      [] rot = 270 -> [a |-> 0,  b |-> -1, c |-> -1, d |-> 0,
                       e |-> (h * ScaleNum) \div ScaleDen,
                       f |-> (w * ScaleNum) \div ScaleDen]

\* viewport.convertToViewportPoint(x, y): the transform applied to a PDF point
convertToViewportPoint(x, y, vp) ==
    << ((vp.a * x + vp.c * y) * ScaleNum) \div ScaleDen + vp.e,
       ((vp.b * x + vp.d * y) * ScaleNum) \div ScaleDen + vp.f >>

\* viewport.convertToViewportRectangle(rect): both corners mapped, in order
convertToViewportRectangle(rect, vp) ==
    LET tl == convertToViewportPoint(rect[1], rect[2], vp)
        br == convertToViewportPoint(rect[3], rect[4], vp)
    IN  << tl[1], tl[2], br[1], br[2] >>

\* viewport.convertToPdfPoint(x, y): the inverse transform applied to a pixel
convertToPdfPoint(x, y, vp) ==
    LET det == vp.a * vp.d - vp.b * vp.c
    IN  << (det * (vp.d * (x - vp.e) - vp.c * (y - vp.f)) * ScaleDen) \div ScaleNum,
           (det * (vp.a * (y - vp.f) - vp.b * (x - vp.e)) * ScaleDen) \div ScaleNum >>

\* A plausible slip: the first mapped corner taken as the origin, without
\* the minimum and the absolute value
viewportToPdfRect_Unnormalized(vx, vy, vwidth, vheight, viewport) ==
    LET p1 == convertToPdfPoint(vx, vy, viewport)
        p2 == convertToPdfPoint(vx + vwidth, vy + vheight, viewport)
    IN  [x |-> p1[1], y |-> p1[2],
         width |-> p2[1] - p1[1], height |-> p2[2] - p1[2]]

\* A plausible slip: the second corner keeps the first corner's y
viewportToPdfRect_SameRow(vx, vy, vwidth, vheight, viewport) ==
    LET p1 == convertToPdfPoint(vx, vy, viewport)
        p2 == convertToPdfPoint(vx + vwidth, vy, viewport)
    IN  [x |-> Min(p1[1], p2[1]), y |-> Min(p1[2], p2[2]),
         width |-> Abs(p2[1] - p1[1]), height |-> Abs(p2[2] - p1[2])]

viewportToPdfRectFromViewportRect(vx, vy, vwidth, vheight, viewport) ==
    LET p1 == convertToPdfPoint(vx, vy, viewport)
        p2 == convertToPdfPoint(vx + vwidth, vy + vheight, viewport)
    IN  [x |-> Min(p1[1], p2[1]), y |-> Min(p1[2], p2[2]),
         width |-> Abs(p2[1] - p1[1]), height |-> Abs(p2[2] - p1[2])]

pdfRectToViewportRect(pdfRectArray, viewport) ==
    LET rect == convertToViewportRectangle(pdfRectArray, viewport)
    IN  [x |-> Min(rect[1], rect[3]), y |-> Min(rect[2], rect[4]),
         width |-> Abs(rect[3] - rect[1]), height |-> Abs(rect[4] - rect[2])]

---------------------------------------------------------------------------
(* Form flattener: flattenWithPdfLib as a step machine over one document   *)

\* Largest page count of a document
MaxPages == 2

NoBytes == [src |-> 0, n |-> 0]

\* A page node's /Annots entry: present or not, and the annotation subtypes
AnnotsChoices ==
    { [has |-> FALSE, list |-> << >>],
      [has |-> TRUE,  list |-> << "Link" >>],
      [has |-> TRUE,  list |-> << "Widget" >>],
      [has |-> TRUE,  list |-> << "Widget", "Link" >>] }

PageLists == UNION { [1..n -> AnnotsChoices] : n \in 1..MaxPages }

\* (await page.getAnnotations()).filter(a => a.subtype === 'Widget').length
WidgetCount(pg) ==
    IF pg.has THEN Cardinality({ k \in 1..Len(pg.list) : pg.list[k] = "Widget" })
    ELSE 0

TotalWidgets(pgs) ==
    LET RECURSIVE Sum(_)
        Sum(k) == IF k = 0 THEN 0 ELSE WidgetCount(pgs[k]) + Sum(k - 1)
    IN  Sum(Len(pgs))

\* The documents handed to the flattener.  acro says whether the catalog has an
\* /AcroForm entry; its fields are the fields of the widgets on the pages.
\* The raise* components say which library call raises on this document.
FlattenInputs ==
    { [pgs |-> pgs, acro |-> acro, loadFails |-> lf,
       raiseCatalog |-> rc, raisePage |-> rp, raiseFlatten |-> rf] :
        pgs \in PageLists, acro \in BOOLEAN, lf \in BOOLEAN,
        rc \in BOOLEAN, rp \in 0..MaxPages, rf \in BOOLEAN }

FlIdle ==
    [pc |-> "idle", doc |-> [pgs |-> << >>, acro |-> FALSE, loadFails |-> FALSE,
                             raiseCatalog |-> FALSE, raisePage |-> 0,
                             raiseFlatten |-> FALSE],
     acro |-> FALSE, nfields |-> 0, pgs |-> << >>, i |-> 0,
     attempted |-> {}, catalogAttempted |-> FALSE, phase1Raised |-> FALSE,
     phase2Attempted |-> FALSE, phase2Raised |-> FALSE,
     formAfterDelete |-> FALSE, saved |-> FALSE, err |-> "none"]

\* const pdfDoc = await PDFDocument.load(originalBytes)
FlStart(d) ==
    [FlIdle EXCEPT !.pc = "load", !.doc = d, !.acro = d.acro,
                   !.nfields = IF d.acro THEN TotalWidgets(d.pgs) ELSE 0,
                   !.pgs = d.pgs]

\* A plausible slip: only the first page loses its /Annots entry
DeleteAnnots_FirstOnly(pgs, i) ==
    IF i = 1 THEN [pgs EXCEPT ![i] = [has |-> FALSE, list |-> << >>]] ELSE pgs

\* node.dict.delete(PDFName.of("Annots"))
DeleteAnnots(pgs, i) == [pgs EXCEPT ![i] = [has |-> FALSE, list |-> << >>]]

\* form.flatten(): every field of the form is removed together with its
\* widgets; a form without fields leaves the pages alone.
FlattenForm(pgs, hasFields) ==
    IF hasFields
    THEN [k \in 1..Len(pgs) |->
            [pgs[k] EXCEPT !.list = SelectSeq(pgs[k].list, LAMBDA s : s # "Widget")]]
    ELSE pgs

\* A plausible slip: the library flatten first, the hard delete left out
FlLoad_StraightToPhase2 ==
    /\ fl.pc = "load"
    /\ fl' = IF fl.doc.loadFails
             THEN [fl EXCEPT !.pc = "failed", !.err = "LoadError"]
             ELSE [fl EXCEPT !.pc = "phase2"]
    /\ UNCHANGED <<appVars, geo, ex, ap, bf>>

FlLoad ==
    /\ fl.pc = "load"
    /\ fl' = IF fl.doc.loadFails
             THEN [fl EXCEPT !.pc = "failed", !.err = "LoadError"]
             ELSE [fl EXCEPT !.pc = "catalog"]
    /\ UNCHANGED <<appVars, geo, ex, ap, bf>>

\* Phase 1, first statement of the try block: the catalog's /AcroForm entry
FlCatalog ==
    /\ fl.pc = "catalog"
    /\ fl' = IF fl.doc.raiseCatalog
             THEN [fl EXCEPT !.pc = "phase2", !.catalogAttempted = TRUE,
                             !.phase1Raised = TRUE]
             ELSE [fl EXCEPT !.pc = IF Len(fl.pgs) = 0 THEN "phase2" ELSE "pages",
                             !.catalogAttempted = TRUE,
                             !.acro = FALSE, !.nfields = 0, !.i = 1]
    /\ UNCHANGED <<appVars, geo, ex, ap, bf>>

\* Phase 1, one turn of the loop over pdfDoc.getPages(), in the same try block
FlPage ==
    /\ fl.pc = "pages"
    /\ fl' = IF fl.doc.raisePage = fl.i
             THEN [fl EXCEPT !.pc = "phase2", !.attempted = @ \cup {fl.i},
                             !.phase1Raised = TRUE]
             ELSE [fl EXCEPT !.pc = IF fl.i = Len(fl.pgs) THEN "phase2" ELSE "pages",
                             !.attempted = @ \cup {fl.i},
                             !.pgs = DeleteAnnots(fl.pgs, fl.i),
                             !.i = fl.i + 1]
    /\ UNCHANGED <<appVars, geo, ex, ap, bf>>

\* A plausible slip: the phase-2 catch is missing, the failure reaches the caller
FlFlatten_Propagates ==
    /\ fl.pc = "phase2"
    /\ fl' = IF fl.doc.raiseFlatten
             THEN [fl EXCEPT !.pc = "failed", !.phase2Attempted = TRUE,
                             !.phase2Raised = TRUE, !.err = "FlattenFallbackError"]
             ELSE [fl EXCEPT !.pc = "save", !.phase2Attempted = TRUE,
                             !.formAfterDelete = fl.catalogAttempted,
                             !.pgs = FlattenForm(fl.pgs, fl.acro /\ fl.nfields > 0),
                             !.acro = TRUE, !.nfields = 0]
    /\ UNCHANGED <<appVars, geo, ex, ap, bf>>

\* Phase 2: const form = pdfDoc.getForm(); form.flatten(); in its own try block
FlFlatten ==
    /\ fl.pc = "phase2"
    /\ fl' = IF fl.doc.raiseFlatten
             THEN [fl EXCEPT !.pc = "save", !.phase2Attempted = TRUE,
                             !.phase2Raised = TRUE]
             ELSE [fl EXCEPT !.pc = "save", !.phase2Attempted = TRUE,
                             !.formAfterDelete = fl.catalogAttempted,
                             !.pgs = FlattenForm(fl.pgs, fl.acro /\ fl.nfields > 0),
                             !.acro = TRUE, !.nfields = 0]
    /\ UNCHANGED <<appVars, geo, ex, ap, bf>>

\* return await pdfDoc.save({ useObjectStreams: false })
FlSave ==
    /\ fl.pc = "save"
    /\ fl' = [fl EXCEPT !.pc = "done", !.saved = TRUE]
    /\ UNCHANGED <<appVars, geo, ex, ap, bf>>

---------------------------------------------------------------------------
(* Values, field-type codes and the widget extractor                       *)

\* A JavaScript value: null / undefined, a string or a boolean
Null == [kind |-> "null", s |-> "", b |-> FALSE]

Str(s) == [kind |-> "string", s |-> s, b |-> FALSE]

Bool(b) == [kind |-> "boolean", s |-> "", b |-> b]

\* JavaScript truthiness of a value: if (ov.value)
Truthy(v) ==
    CASE v.kind = "boolean" -> v.b
      [] v.kind = "string"  -> v.s # ""
      [] OTHER              -> FALSE

\* ("" + t).toLowerCase(), on a code held as a sequence of characters
ToLowerCase(t) ==
    [k \in 1..Len(t) |->
        CASE t[k] = "R" -> "r" [] t[k] = "A" -> "a" [] t[k] = "D" -> "d"
          [] t[k] = "I" -> "i" [] t[k] = "O" -> "o" [] t[k] = "B" -> "b"
          [] t[k] = "T" -> "t" [] t[k] = "C" -> "c" [] t[k] = "S" -> "s"
          [] OTHER -> t[k]]

\* String.prototype.includes
Includes(t, sub) ==
    \E k \in 0..(Len(t) - Len(sub)) : SubSeq(t, k + 1, k + Len(sub)) = sub

\* A plausible slip: the substring test without toLowerCase()
mapPdfJsFieldType_CaseSensitive(t) ==
    CASE t = << >>                -> "text"
      [] t = << "T", "x" >>       -> "text"
      [] t = << "C", "h" >>       -> "dropdown"
      [] t = << "S", "i", "g" >>  -> "text"
      [] t = << "B", "t", "n" >>  -> "checkbox"
      [] OTHER -> IF Includes(t, << "r", "a", "d", "i", "o" >>)
                  THEN "radio" ELSE "text"

mapPdfJsFieldType(t) ==
    CASE t = << >>                -> "text"
      [] t = << "T", "x" >>       -> "text"
      [] t = << "C", "h" >>       -> "dropdown"
      [] t = << "S", "i", "g" >>  -> "text"
      [] t = << "B", "t", "n" >>  -> "checkbox"
      [] OTHER -> IF Includes(ToLowerCase(t), << "r", "a", "d", "i", "o" >>)
                  THEN "radio" ELSE "text"

\* A plausible slip: the alternative text before the field name
ExtractName_AltFirst(a, i, idx) ==
    IF a.alternativeText # "" THEN a.alternativeText
    ELSE IF a.fieldName # "" THEN a.fieldName
    ELSE "Field_" \o ToString(i) \o "_" \o ToString(idx)

\* a.fieldName || a.alternativeText || `Field_${i}_${idx}`
ExtractName(a, i, idx) ==
    IF a.fieldName # "" THEN a.fieldName
    ELSE IF a.alternativeText # "" THEN a.alternativeText
    ELSE "Field_" \o ToString(i) \o "_" \o ToString(idx)

\* a.fieldType || a.widgetType || "text"
ExtractTypeCode(a) ==
    IF a.fieldType # << >> THEN a.fieldType
    ELSE IF a.widgetType # << >> THEN a.widgetType
    ELSE << "t", "e", "x", "t" >>

\* a.fieldValue ?? ""
ExtractValue(a) == IF a.fieldValue.kind = "null" THEN Str("") ELSE a.fieldValue

\* The overlay pushed for the idx-th widget (0-based) of page i (1-based)
ExtractOverlay(a, i, idx, viewport) ==
    LET rect == pdfRectToViewportRect(a.rect, viewport)
        name == ExtractName(a, i, idx)
        mappedType == mapPdfJsFieldType(ExtractTypeCode(a))
        id == ToString(i) \o "_" \o ToString(idx) \o "_" \o name
        s == Max(U(12), Min(rect.width, rect.height))
    IN  IF mappedType = "checkbox" \/ mappedType = "radio"
        THEN [id |-> id, pageIndex |-> i - 1, type |-> mappedType, name |-> name,
              value |-> ExtractValue(a), x |-> rect.x, y |-> rect.y,
              width |-> s, height |-> s]
        ELSE [id |-> id, pageIndex |-> i - 1, type |-> mappedType, name |-> name,
              value |-> ExtractValue(a), x |-> rect.x, y |-> rect.y,
              width |-> Max(U(40), rect.width), height |-> Max(U(20), rect.height)]

\* A plausible slip: every annotation taken, whatever its subtype
ExtractPage_Unfiltered(anns, i, viewport) ==
    [k \in 1..Len(anns) |-> ExtractOverlay(anns[k], i, k - 1, viewport)]

\* anns.filter(a => a.subtype === "Widget").forEach((a, idx) => ...)
ExtractPage(anns, i, viewport) ==
    LET widgets == SelectSeq(anns, LAMBDA a : a.subtype = "Widget")
    IN  [k \in 1..Len(widgets) |-> ExtractOverlay(widgets[k], i, k - 1, viewport)]

\* The loop over the pages 1..pdf.numPages of extractFieldsWithPdfJs: the
\* overlays extracted from a document d = [n, rot, anns], page by page
ExtractFields(d) ==
    LET RECURSIVE Upto(_)
        Upto(i) ==
            IF i = 0 THEN << >>
            ELSE Upto(i - 1) \o
                 ExtractPage(d.anns[i], i, getViewport(d.rot, U(PageW), U(PageH)))
    IN  Upto(d.n)

---------------------------------------------------------------------------
(* Field re-applicator                                                     *)

\* String(ov.value)
StringOf(v) ==
    CASE v.kind = "boolean" -> IF v.b THEN "true" ELSE "false"
      [] OTHER              -> v.s

\* A plausible slip: the synthesized name used whatever the overlay's name
ApplyName_AlwaysSynthesized(ov, prefix) == prefix \o "_" \o ov.id

\* ov.name || `<Prefix>_${ov.id}`
ApplyName(ov, prefix) == IF ov.name # "" THEN ov.name ELSE prefix \o "_" \o ov.id

\* A plausible slip: the side of a checkbox or radio without its floor of 12
ApplyField_Unclamped(ov, pdfjsPage) ==
    LET viewport == getViewport(pdfjsPage.rotate, U(PageW), U(PageH))
        r == viewportToPdfRectFromViewportRect(ov.x, ov.y, ov.width, ov.height, viewport)
        s == Min(r.width, r.height)
    IN  CASE ov.type \in {"text", "date", "dropdown"} ->
               [name |-> ApplyName(ov, "Text"), kind |-> "text", page |-> ov.pageIndex,
                x |-> r.x, y |-> r.y, width |-> r.width, height |-> r.height,
                text |-> IF Truthy(ov.value) THEN StringOf(ov.value) ELSE "",
                on |-> FALSE]
          [] ov.type = "checkbox" ->
               [name |-> ApplyName(ov, "Check"), kind |-> "checkbox", page |-> ov.pageIndex,
                x |-> r.x, y |-> r.y, width |-> s, height |-> s,
                text |-> "", on |-> Truthy(ov.value)]
          [] ov.type = "radio" ->
               [name |-> ApplyName(ov, "Radio"), kind |-> "radio", page |-> ov.pageIndex,
                x |-> r.x, y |-> r.y, width |-> s, height |-> s,
                text |-> "", on |-> Truthy(ov.value)]

\* The field one turn of the loop creates for ov, placed on page ov.pageIndex
\* at the rectangle converted through that page handle's viewport
ApplyField(ov, pdfjsPage) ==
    LET viewport == getViewport(pdfjsPage.rotate, U(PageW), U(PageH))
        r == viewportToPdfRectFromViewportRect(ov.x, ov.y, ov.width, ov.height, viewport)
        s == Max(U(12), Min(r.width, r.height))
    IN  CASE ov.type \in {"text", "date", "dropdown"} ->
               [name |-> ApplyName(ov, "Text"), kind |-> "text", page |-> ov.pageIndex,
                x |-> r.x, y |-> r.y, width |-> r.width, height |-> r.height,
                text |-> IF Truthy(ov.value) THEN StringOf(ov.value) ELSE "",
                on |-> FALSE]
          [] ov.type = "checkbox" ->
               [name |-> ApplyName(ov, "Check"), kind |-> "checkbox", page |-> ov.pageIndex,
                x |-> r.x, y |-> r.y, width |-> s, height |-> s,
                text |-> "", on |-> Truthy(ov.value)]
          [] ov.type = "radio" ->
               [name |-> ApplyName(ov, "Radio"), kind |-> "radio", page |-> ov.pageIndex,
                x |-> r.x, y |-> r.y, width |-> s, height |-> s,
                text |-> "", on |-> Truthy(ov.value)]

ApplyTypes == {"text", "date", "dropdown", "checkbox", "radio"}

\* One turn of the loop "for (const ov of overlays)" on the form built so far.
\* pages[ov.pageIndex] undefined makes pdfjsPage.getViewport raise; the form
\* raises on a field name it already holds; addToPage raises on an undefined
\* target page.  An overlay of any other type creates nothing.
ApplyOne(acc, ov, flat, pgs) ==
    IF acc.err # "none" THEN acc
    ELSE IF ~(ov.pageIndex >= 0 /\ ov.pageIndex < Len(pgs))
    THEN [acc EXCEPT !.err = "ApplyIndexError"]
    ELSE IF ov.type \notin ApplyTypes THEN acc
    ELSE LET fld == ApplyField(ov, pgs[ov.pageIndex + 1])
         IN  IF \E k \in 1..Len(acc.fields) : acc.fields[k].name = fld.name
             THEN [acc EXCEPT !.err = "FieldAlreadyExistsError"]
             ELSE IF ~(ov.pageIndex < flat.n)
             THEN [acc EXCEPT !.err = "ApplyIndexError"]
             ELSE [acc EXCEPT !.fields = Append(@, fld)]

\* A plausible slip: an overlay whose page is missing is skipped
ApplyOne_SkipMissing(acc, ov, flat, pgs) ==
    IF ~(ov.pageIndex >= 0 /\ ov.pageIndex < Len(pgs) /\ ov.pageIndex < flat.n)
    THEN acc
    ELSE ApplyOne(acc, ov, flat, pgs)

\* The loop of applyFields, one turn per overlay
ApplyTurn(acc, ov, flat, pgs) == ApplyOne(acc, ov, flat, pgs)

\* applyFields(flattenedBytes, overlays, pages): the fields of the saved
\* document, or the error the call rejects with
applyFields(flat, ovs, pgs) ==
    LET RECURSIVE Upto(_)
        Upto(k) ==
            IF k = 0 THEN [fields |-> << >>, err |-> "none"]
            ELSE ApplyTurn(Upto(k - 1), ovs[k], flat, pgs)
    IN  Upto(Len(ovs))

---------------------------------------------------------------------------
(* The files a user can select                                             *)

Tx == << "T", "x" >>

Btn == << "B", "t", "n" >>

Widget(ft, name, val, rect) ==
    [subtype |-> "Widget", fieldType |-> ft, widgetType |-> << >>,
     fieldName |-> name, alternativeText |-> "", fieldValue |-> val, rect |-> rect]

LinkAnnot ==
    [subtype |-> "Link", fieldType |-> << >>, widgetType |-> << >>,
     fieldName |-> "", alternativeText |-> "", fieldValue |-> Null,
     rect |-> << U(10), U(10), U(50), U(20) >>]

\* The rectangles of the self-test fixture: "Name" and "Agree"
NameRect == << U(72), U(700), U(272), U(724) >>

AgreeRect == << U(72), U(660), U(88), U(676) >>

\* fails names the library load that rejects the file's bytes: the extractor's
\* ("extract"), the flattener's ("flatten"), the preview reload ("preview")
Files ==
    { [id |-> 1, n |-> 2, rot |-> 0, fails |-> "none",
       anns |-> << << LinkAnnot >>, << Widget(Tx, "A", Str("hi"), NameRect) >> >>],
      [id |-> 2, n |-> 1, rot |-> 90, fails |-> "none",
       anns |-> << << Widget(Btn, "G", Str("Off"), AgreeRect),
                      Widget(Btn, "G", Null, AgreeRect) >> >>],
      [id |-> 3, n |-> 1, rot |-> 0, fails |-> "extract",
       anns |-> << << Widget(Tx, "B", Null, NameRect) >> >>],
      [id |-> 4, n |-> 1, rot |-> 0, fails |-> "flatten",
       anns |-> << << Widget(Tx, "B", Null, NameRect) >> >>],
      [id |-> 5, n |-> 1, rot |-> 0, fails |-> "preview",
       anns |-> << << Widget(Tx, "B", Null, NameRect) >> >>] }

FileById(id) == CHOOSE f \in Files : f.id = id

\* The pdf.js page handles of a loaded document: pageList / flatPages
PageHandles(f, kind) == [k \in 1..f.n |-> [src |-> f.id, kind |-> kind, rotate |-> f.rot]]

---------------------------------------------------------------------------
(* The App component                                                       *)

NoId == "null"

\* Bounds of the exploration
\* MaxEvents bounds the user events of a run (file selections, field edits,
\* selections and apply requests), MaxLoads the file selections among them
MaxEvents == 3

MaxLoads == 2

FieldTypes == {"text", "checkbox", "radio", "dropdown", "date"}

NeverApplied ==
    [count |-> 0, downloads |-> 0, err |-> "none", nfields |-> 0, novs |-> 0,
     badIndex |-> FALSE, pagesSrc |-> 0, flatSrc |-> 0, ovSrc |-> 0,
     npages |-> 0, flatn |-> 0]

Ids(ovs) == { ovs[k].id : k \in 1..Len(ovs) }

NoSession ==
    [file |-> 0, pages |-> << >>, flattenedBytes |-> NoBytes,
     overlays |-> << >>, selectedId |-> NoId, loading |-> FALSE]

\* The session state a file selection finds (history, kept for the sequences
\* whose load can fail)
Session ==
    [file |-> file, pages |-> pages, flattenedBytes |-> flattenedBytes,
     overlays |-> overlays, selectedId |-> selectedId, loading |-> loading]

\* The sequence moves on to pc; a settled sequence holds nothing any more
Advance(s, pc) ==
    IF pc \in {"done", "failed"}
    THEN [seqs EXCEPT ![s] = [f |-> 0, pc |-> pc, existing |-> << >>,
                               before |-> NoSession]]
    ELSE [seqs EXCEPT ![s].pc = pc]

\* onFileSelected up to its first await: setLoading(true); setFile(f)
FileSelected(f) ==
    /\ Len(seqs) < MaxLoads
    /\ events < MaxEvents
    /\ events' = events + 1
    /\ loading' = TRUE
    /\ file' = f.id
    /\ seqs' = Append(seqs, [f |-> f.id, pc |-> "read", existing |-> << >>,
                             before |-> IF f.fails = "none" THEN NoSession
                                        ELSE Session])
    /\ UNCHANGED <<pages, flattenedBytes, overlays, selectedId, clock, applied,
                   seeded, geo, fl, ex, ap, bf>>

\* const ab = await blobToArrayBuffer(f) resolves, extractFieldsWithPdfJs is
\* entered on toUint8(ab) and its pdfjsLib.getDocument settles; a rejection
\* leaves onFileSelected through its await with nothing catching it
ExtractLoaded(s) ==
    /\ seqs[s].pc = "read"
    /\ seqs' = Advance(s, IF FileById(seqs[s].f).fails = "extract"
                          THEN "failed" ELSE "extract")
    /\ UNCHANGED <<file, pages, flattenedBytes, overlays, loading, selectedId,
                   clock, applied, events, seeded, geo, fl, ex, ap, bf>>

\* A plausible slip: the overlays seeded as soon as the extraction returns
ExtractDone_SeedsOverlays(s) ==
    /\ seqs[s].pc = "extract"
    /\ pages' = PageHandles(FileById(seqs[s].f), "orig")
    /\ overlays' = ExtractFields(FileById(seqs[s].f))
    /\ seqs' = [seqs EXCEPT ![s].pc = "flatten",
                            ![s].existing = ExtractFields(FileById(seqs[s].f))]
    /\ UNCHANGED <<file, flattenedBytes, loading, selectedId,
                   clock, applied, events, seeded, geo, fl, ex, ap, bf>>

\* The page loop of extractFieldsWithPdfJs ends: setPages(pageList); return
\* extracted; flattenWithPdfLib(ab) is entered and suspends on its load
ExtractDone(s) ==
    /\ seqs[s].pc = "extract"
    /\ pages' = PageHandles(FileById(seqs[s].f), "orig")
    /\ seqs' = [seqs EXCEPT ![s].pc = "flatten",
                            ![s].existing = ExtractFields(FileById(seqs[s].f))]
    /\ UNCHANGED <<file, flattenedBytes, overlays, loading, selectedId,
                   clock, applied, events, seeded, geo, fl, ex, ap, bf>>

\* flattenWithPdfLib settles: setFlattenedBytes(flat.slice()), then the
\* preview reload suspends on pdfjsLib.getDocument
FlattenDone(s) ==
    /\ seqs[s].pc = "flatten"
    /\ IF FileById(seqs[s].f).fails = "flatten"
       THEN /\ seqs' = Advance(s, "failed")
            /\ UNCHANGED flattenedBytes
       ELSE /\ seqs' = Advance(s, "preview")
            /\ flattenedBytes' = [src |-> seqs[s].f, n |-> FileById(seqs[s].f).n]
    /\ UNCHANGED <<file, pages, overlays, loading, selectedId,
                   clock, applied, events, seeded, geo, fl, ex, ap, bf>>

\* The preview reload settles and its page loop ends: setPages(flatPages);
\* setOverlays(existing); setSelectedId(existing[0]?.id || null);
\* setLoading(false)
PreviewDone(s) ==
    /\ seqs[s].pc = "preview"
    /\ IF FileById(seqs[s].f).fails = "preview"
       THEN /\ seqs' = Advance(s, "failed")
            /\ UNCHANGED <<pages, overlays, selectedId, loading, seeded>>
       ELSE /\ seqs' = Advance(s, "done")
            /\ seeded' = seqs[s].f
            /\ pages' = PageHandles(FileById(seqs[s].f), "flat")
            /\ overlays' = seqs[s].existing
            /\ selectedId' = IF Len(seqs[s].existing) > 0
                             THEN seqs[s].existing[1].id ELSE NoId
            /\ loading' = FALSE
    /\ UNCHANGED <<file, flattenedBytes, clock, applied, events, geo, fl, ex, ap, bf>>

\* onSelect: a field button of the left sidebar (one per overlay on an
\* existing page), or a press on a page, which selects nothing
Select(id) ==
    /\ events < MaxEvents
    /\ events' = events + 1
    /\ id # selectedId
    /\ \/ \E k \in 1..Len(overlays) :
             /\ overlays[k].id = id
             /\ overlays[k].pageIndex >= 0 /\ overlays[k].pageIndex < Len(pages)
       \/ id = NoId /\ ~loading /\ Len(pages) > 0
    /\ selectedId' = id
    /\ UNCHANGED <<file, pages, flattenedBytes, overlays, loading,
                   seqs, clock, applied, seeded, geo, fl, ex, ap, bf>>

\* const id = `new_${Date.now()}`
NewId(now) == "new_" \o ToString(now)

NewOverlay(id, type) ==
    LET isTick == type = "checkbox" \/ type = "radio"
    IN  [id |-> id, pageIndex |-> 0, type |-> type, name |-> "",
         value |-> IF isTick THEN Bool(FALSE) ELSE Str(""),
         x |-> U(60), y |-> U(60),
         width |-> IF isTick THEN U(16) ELSE U(160),
         height |-> IF isTick THEN U(16) ELSE U(28)]

\* Date.now() at the call is some now >= the last value read: the clock has
\* millisecond steps and need not have moved since the previous call
addField(type, now) ==
    /\ events < MaxEvents
    /\ Len(pages) > 0
    /\ now \in {clock, clock + 1}
    /\ clock' = now
    /\ overlays' = Append(overlays, NewOverlay(NewId(now), type))
    /\ selectedId' = NewId(now)
    /\ events' = events + 1
    /\ UNCHANGED <<file, pages, flattenedBytes, loading,
                   seqs, applied, seeded, geo, fl, ex, ap, bf>>

\* const selectedField = overlays.find(o => o.id === selectedId) || null
HasSelectedField == \E k \in 1..Len(overlays) : overlays[k].id = selectedId

selectedField ==
    overlays[CHOOSE k \in 1..Len(overlays) :
                /\ overlays[k].id = selectedId
                /\ \A j \in 1..(k - 1) : overlays[j].id # selectedId]

EditNames == {"", "A"}

\* The records the right sidebar hands to onChange for the selected field:
\* update("name", ...), update("value", ...), update("pageIndex", ...)
SidebarEdits(field) ==
    ( { [field EXCEPT !.name = nm] : nm \in EditNames }
      \cup (IF field.type = "checkbox" \/ field.type = "radio"
            THEN { [field EXCEPT !.value = Bool(b)] : b \in BOOLEAN }
            ELSE { [field EXCEPT !.value = Str(v)] : v \in {"", "v"} })
      \cup { [field EXCEPT !.pageIndex = i] : i \in 0..(Len(pages) - 1) } )
    \ {field}

\* The right sidebar edits the selected field, when there is one
SidebarChanges == IF HasSelectedField THEN SidebarEdits(selectedField) ELSE {}

\* The numbers typed into the X, Y, Width and Height inputs; updateNum takes
\* every finite number
NumInputs == {0 - U(5), U(100)}

IsTick(field) == field.type = "checkbox" \/ field.type = "radio"

\* updateNum("x" | "y" | "width" | "height", v) on the selected field; the
\* width and height inputs are disabled for checkbox and radio
SidebarNumEdits(field) ==
    { [field EXCEPT !.x = n] : n \in NumInputs }
    \cup { [field EXCEPT !.y = n] : n \in NumInputs }
    \cup (IF IsTick(field) THEN {}
          ELSE { [field EXCEPT !.width = n] : n \in NumInputs }
               \cup { [field EXCEPT !.height = n] : n \in NumInputs })

\* The end of a drag of an overlay: moved by (dx, dy), size kept
DragEnds(field) ==
    { [field EXCEPT !.x = @ + d[1], !.y = @ + d[2]] :
        d \in { << U(10), 0 - U(10) >> } }

\* The end of a resize (not offered for checkbox and radio): moved by
\* (rx, ry), width and height taken from the rectangle of the event
ResizeEnds(field) ==
    IF IsTick(field) THEN {}
    ELSE { [field EXCEPT !.x = @ + e[1], !.y = @ + e[2], !.width = e[3], !.height = e[4]] :
             e \in { << 0, 0, U(200), U(40) >>, << U(5), U(5), U(150), 0 >> } }

\* The overlays drawn on the pages: none while loading, and only those whose
\* page exists
DrawnOverlays ==
    IF loading THEN {}
    ELSE { overlays[k] : k \in { k \in 1..Len(overlays) :
                                   overlays[k].pageIndex \in 0..(Len(pages) - 1) } }

\* Every record the editor can hand to updateOverlay: the sidebar's edits of
\* the selected field, and drag, resize and typing on a drawn overlay (an
\* edit that changes nothing raises no event)
EditorChanges ==
    ( SidebarChanges
      \cup (IF HasSelectedField THEN SidebarNumEdits(selectedField) ELSE {})
      \cup UNION { DragEnds(f) \cup ResizeEnds(f) : f \in DrawnOverlays }
      \cup { [f EXCEPT !.value = Str("t")] :
               f \in { g \in DrawnOverlays : ~IsTick(g) } } )
    \ { overlays[k] : k \in 1..Len(overlays) }

\* The sidebar's Delete Field button and the Delete / Backspace key both
\* delete the selected field
DeleteRequests == IF HasSelectedField THEN {selectedId} ELSE {}

\* prev.map(o => o.id === next.id ? next : o)
ReplaceById(prev, next) ==
    [k \in 1..Len(prev) |-> IF prev[k].id = next.id THEN next ELSE prev[k]]

updateOverlay(next) ==
    /\ events < MaxEvents
    /\ overlays' = ReplaceById(overlays, next)
    /\ selectedId' = next.id
    /\ events' = events + 1
    /\ UNCHANGED <<file, pages, flattenedBytes, loading,
                   seqs, clock, applied, seeded, geo, fl, ex, ap, bf>>

\* prev.filter(o => o.id !== id); if (selectedId === id) setSelectedId(null)
deleteOverlay(id) ==
    /\ events < MaxEvents
    /\ overlays' = SelectSeq(overlays, LAMBDA o : o.id # id)
    /\ selectedId' = IF selectedId = id THEN NoId ELSE selectedId
    /\ events' = events + 1
    /\ UNCHANGED <<file, pages, flattenedBytes, loading,
                   seqs, clock, applied, seeded, geo, fl, ex, ap, bf>>

\* The Apply & Download button (enabled while pages.length > 0):
\* if (!flattenedBytes || !pages.length) return; applyFields(...); downloadBlob
applyAndDownload ==
    /\ events < MaxEvents
    /\ events' = events + 1
    /\ Len(pages) > 0
    /\ flattenedBytes # NoBytes
    /\ LET out == applyFields(flattenedBytes, overlays, pages)
       IN  applied' =
             [count |-> applied.count + 1,
              downloads |-> IF out.err = "none" THEN applied.downloads + 1
                            ELSE applied.downloads,
              err |-> out.err,
              nfields |-> Len(out.fields),
              novs |-> Len(overlays),
              badIndex |-> \E k \in 1..Len(overlays) :
                              ~(overlays[k].pageIndex >= 0
                                /\ overlays[k].pageIndex < Len(pages)
                                /\ overlays[k].pageIndex < flattenedBytes.n),
              pagesSrc |-> pages[1].src, flatSrc |-> flattenedBytes.src,
              ovSrc |-> seeded,
              npages |-> Len(pages), flatn |-> flattenedBytes.n]
    /\ UNCHANGED <<file, pages, flattenedBytes, overlays, loading, selectedId,
                   seqs, clock, seeded, geo, fl, ex, ap, bf>>

---------------------------------------------------------------------------
(* Coordinate round trip as a two-step run                                 *)

GeoIdle ==
    [pc |-> "idle", rot |-> 0,
     r    |-> [x |-> 0, y |-> 0, width |-> 0, height |-> 0],
     pdf  |-> [x |-> 0, y |-> 0, width |-> 0, height |-> 0],
     back |-> [x |-> 0, y |-> 0, width |-> 0, height |-> 0]]

\* Viewport rectangles: whole and half pixels, empty and negative extents
GeoRects ==
    { [x |-> x, y |-> y, width |-> w, height |-> h] :
        x \in {0, U(100)}, y \in {0, U(150)},
        w \in {0 - U(20), 0, 9, U(120)}, h \in {0 - U(10), 0, U(30)} }

GeoViewport == getViewport(geo.rot, U(PageW), U(PageH))

GeoToPdf ==
    /\ geo.pc = "start"
    /\ geo' = [geo EXCEPT !.pc = "pdf",
                          !.pdf = viewportToPdfRectFromViewportRect(
                                      geo.r.x, geo.r.y, geo.r.width, geo.r.height,
                                      GeoViewport)]
    /\ UNCHANGED <<appVars, fl, ex, ap, bf>>

GeoBack ==
    /\ geo.pc = "pdf"
    /\ geo' = [geo EXCEPT !.pc = "back",
                          !.back = pdfRectToViewportRect(
                                      << geo.pdf.x, geo.pdf.y,
                                         geo.pdf.x + geo.pdf.width,
                                         geo.pdf.y + geo.pdf.height >>,
                                      GeoViewport)]
    /\ UNCHANGED <<appVars, fl, ex, ap, bf>>

---------------------------------------------------------------------------
(* The extractor, the re-applicator and the byte buffers as runs           *)

\* Field-type codes beside Tx and Btn
Ch == << "C", "h" >>

Sig == << "S", "i", "g" >>

RadioButton == << "R", "a", "d", "i", "o", "B", "u", "t", "t", "o", "n" >>

UpperRadio == << "R", "A", "D", "I", "O" >>

LowerBtn == << "b", "t", "n" >>

\* The annotations page.getAnnotations() can return.  Rectangles are
\* [x1, y1, x2, y2] in points: 200 x 24, 16 x 16, 30 x 16, 10 x 10, 4 x 4, ...
ExName == [Widget(Tx, "Name", Str("hi"), NameRect) EXCEPT !.alternativeText = "Your name"]

ExAgree == Widget(Btn, "Agree", Str("Off"), AgreeRect)

ExWideTick ==
    [Widget(Btn, "", Null, << U(72), U(600), U(102), U(616) >>)
        EXCEPT !.alternativeText = "Tick"]

ExSmallText == Widget(Tx, "", Null, << U(300), U(500), U(310), U(510) >>)

ExSmallRadio == Widget(RadioButton, "R", Null, << U(40), U(40), U(44), U(44) >>)

ExChoice == Widget(Ch, "Pick", Str("x"), << U(72), U(400), U(172), U(430) >>)

ExSignature == Widget(Sig, "Sign", Null, << U(72), U(300), U(272), U(340) >>)

ExWidgetTypeOnly ==
    [Widget(<< >>, "W", Bool(TRUE), << U(200), U(200), U(220), U(230) >>)
        EXCEPT !.widgetType = UpperRadio]

ExUnknownCode == Widget(LowerBtn, "U", Str(""), << U(400), U(100), U(500), U(130) >>)

ExNoCode == Widget(<< >>, "N", Str("n"), << U(400), U(200), U(500), U(230) >>)

ExChecked == Widget(Btn, "Yes", Str("Yes"), << U(72), U(200), U(92), U(220) >>)

ExPageLists ==
    { << ExName, ExAgree >>,
      << LinkAnnot, ExSmallText, ExWideTick >>,
      << ExSmallRadio, LinkAnnot, ExWidgetTypeOnly >>,
      << ExChoice, ExSignature >>,
      << ExUnknownCode, ExNoCode, ExSmallText >>,
      << LinkAnnot >>,
      << >>,
      << ExWideTick >>,
      << ExChecked, ExAgree >> }

\* The documents handed to the extractor: 1..MaxPages pages, each with one of
\* the annotation lists, all pages with the same rotation
ExDocs ==
    UNION { { [n |-> n, rot |-> rot, anns |-> anns] :
                anns \in [1..n -> ExPageLists], rot \in {0, 90} } : n \in 1..MaxPages }

ExIdle ==
    [pc |-> "idle", d |-> [n |-> 0, rot |-> 0, anns |-> << >>], i |-> 1,
     pageList |-> << >>, extracted |-> << >>]

ExStart(d) == [ExIdle EXCEPT !.pc = "start", !.d = d]

\* const pdf = await pdfjsLib.getDocument(...).promise
ExLoad ==
    /\ ex.pc = "start"
    /\ ex' = [ex EXCEPT !.pc = "pages"]
    /\ UNCHANGED <<appVars, geo, fl, ap, bf>>

\* One turn of the loop over the pages: getPage(i), getAnnotations(), push
ExPageTurn ==
    /\ ex.pc = "pages"
    /\ ex.i <= ex.d.n
    /\ ex' = [ex EXCEPT
                 !.i = @ + 1,
                 !.pageList = Append(@, [src |-> 0, kind |-> "orig", rotate |-> ex.d.rot]),
                 !.extracted = @ \o ExtractPage(ex.d.anns[ex.i], ex.i,
                                      getViewport(ex.d.rot, U(PageW), U(PageH)))]
    /\ UNCHANGED <<appVars, geo, fl, ap, bf>>

\* The loop ends: setPages(pageList); return extracted
ExReturn ==
    /\ ex.pc = "pages"
    /\ ex.i > ex.d.n
    /\ ex' = [ex EXCEPT !.pc = "done"]
    /\ UNCHANGED <<appVars, geo, fl, ap, bf>>

\* The overlays handed to applyFields: the two extracted from the self-test
\* fixture (a text field, and a check box whose value is the string "Off"),
\* fields added with the toolbar, as added or edited in the sidebar (a value,
\* a page), and a checkbox overlay that is wider than high
ApExtracted == ExtractFields([n |-> 1, rot |-> 0, anns |-> << << ExName, ExAgree >> >>])

ApWideTick == [NewOverlay("new_5", "checkbox") EXCEPT !.width = U(45), !.height = U(24)]

ApOverlays ==
    { ApExtracted[1], ApExtracted[2],
      [NewOverlay("new_1", "radio") EXCEPT !.value = Bool(TRUE)],
      NewOverlay("new_2", "checkbox"),
      NewOverlay("new_3", "date"),
      [NewOverlay("new_4", "dropdown") EXCEPT !.value = Str("v"), !.pageIndex = 1],
      ApWideTick }

MaxOverlays == 2

ApLists == UNION { [1..n -> ApOverlays] : n \in 0..MaxOverlays }

ApIdle ==
    [pc |-> "idle", ovs |-> << >>, pgs |-> << >>, flat |-> NoBytes, k |-> 1,
     acc |-> [fields |-> << >>, err |-> "none"]]

ApStart(ovs, n, rot) ==
    [ApIdle EXCEPT !.pc = "start", !.ovs = ovs, !.flat = [src |-> 0, n |-> n],
                   !.pgs = [k \in 1..n |-> [src |-> 0, kind |-> "flat", rotate |-> rot]]]

\* PDFDocument.load(flattenedBytes); getForm(); getPages()
ApLoad ==
    /\ ap.pc = "start"
    /\ ap' = [ap EXCEPT !.pc = "loop"]
    /\ UNCHANGED <<appVars, geo, fl, ex, bf>>

\* One turn of the loop over the overlays; an exception ends the call
ApLoopTurn ==
    /\ ap.pc = "loop"
    /\ ap.k <= Len(ap.ovs)
    /\ LET acc == ApplyTurn(ap.acc, ap.ovs[ap.k], ap.flat, ap.pgs)
       IN  ap' = [ap EXCEPT !.acc = acc, !.k = @ + 1,
                            !.pc = IF acc.err = "none" THEN "loop" ELSE "failed"]
    /\ UNCHANGED <<appVars, geo, fl, ex, bf>>

\* return await pdfDoc.save(...)
ApSave ==
    /\ ap.pc = "loop"
    /\ ap.k > Len(ap.ovs)
    /\ ap' = [ap EXCEPT !.pc = "done"]
    /\ UNCHANGED <<appVars, geo, fl, ex, bf>>

\* The byte buffers of a session.  Every buffer object has a number; next is
\* the number the next allocation gets, ab the buffer read from the file, state
\* the buffer held in flattenedBytes (0 = null), loads the library loads made so
\* far, each with the buffer object it was handed
BfIdle ==
    [pc |-> "idle", next |-> 1, ab |-> 0, flat |-> 0, state |-> 0,
     loads |-> << >>, selections |-> 0, applies |-> 0]

\* A library load is handed the buffer object buf
Handed(b, by, buf) == [b EXCEPT !.loads = Append(@, [by |-> by, buf |-> buf])]

\* onFileSelected: const ab = await blobToArrayBuffer(f), a new buffer
BfRead ==
    /\ bf.pc \in {"idle", "loaded"}
    /\ bf.selections < MaxLoads
    /\ bf' = [bf EXCEPT !.pc = "extract", !.ab = bf.next, !.next = @ + 1,
                        !.selections = @ + 1]
    /\ UNCHANGED <<appVars, geo, fl, ex, ap>>

\* extractFieldsWithPdfJs(toUint8(ab)): toUint8 returns a copy (slice), which
\* goes to pdfjsLib.getDocument
BfExtract ==
    /\ bf.pc = "extract"
    /\ bf' = [Handed(bf, "extract", bf.next) EXCEPT !.pc = "flatten", !.next = @ + 1]
    /\ UNCHANGED <<appVars, geo, fl, ex, ap>>

\* flattenWithPdfLib(ab): PDFDocument.load(originalBytes) gets ab itself, save
\* returns a new buffer flat; setFlattenedBytes(flat.slice()) keeps a copy
BfFlatten ==
    /\ bf.pc = "flatten"
    /\ bf' = [Handed(bf, "flatten", bf.ab) EXCEPT
                 !.pc = "preview", !.flat = bf.next, !.state = bf.next + 1,
                 !.next = @ + 2]
    /\ UNCHANGED <<appVars, geo, fl, ex, ap>>

\* pdfjsLib.getDocument({ data: flat.slice() }): another copy of flat
BfPreview ==
    /\ bf.pc = "preview"
    /\ bf' = [Handed(bf, "preview", bf.next) EXCEPT !.pc = "loaded", !.next = @ + 1]
    /\ UNCHANGED <<appVars, geo, fl, ex, ap>>

\* applyAndDownload: applyFields(flattenedBytes, ...) hands the buffer held in
\* the state to PDFDocument.load
BfApply ==
    /\ bf.state # 0
    /\ bf.applies < MaxEvents
    /\ bf' = [Handed(bf, "apply", bf.state) EXCEPT !.applies = @ + 1]
    /\ UNCHANGED <<appVars, geo, fl, ex, ap>>

---------------------------------------------------------------------------
(* Specifications                                                          *)

AppInit ==
    /\ file = 0
    /\ pages = << >>
    /\ flattenedBytes = NoBytes
    /\ overlays = << >>
    /\ loading = FALSE
    /\ selectedId = NoId
    /\ seqs = << >>
    /\ clock = 1
    /\ applied = NeverApplied
    /\ events = 0
    /\ seeded = 0

\* The runs of the single functions stay idle during an App session
RunsIdle == geo = GeoIdle /\ fl = FlIdle /\ ex = ExIdle /\ ap = ApIdle /\ bf = BfIdle

Init == AppInit /\ RunsIdle

Next ==
    \/ \E f \in Files : FileSelected(f)
    \/ \E s \in 1..Len(seqs) : ExtractLoaded(s)
    \/ \E s \in 1..Len(seqs) : ExtractDone(s)
    \/ \E s \in 1..Len(seqs) : FlattenDone(s)
    \/ \E s \in 1..Len(seqs) : PreviewDone(s)
    \/ \E id \in Ids(overlays) \cup {NoId} : Select(id)
    \/ \E type \in FieldTypes, now \in {clock, clock + 1} : addField(type, now)
    \/ \E next \in SidebarChanges : updateOverlay(next)
    \/ \E id \in DeleteRequests : deleteOverlay(id)
    \/ applyAndDownload

Spec == Init /\ [][Next]_vars

InitGeometry ==
    /\ AppInit
    /\ fl = FlIdle /\ ex = ExIdle /\ ap = ApIdle /\ bf = BfIdle
    /\ \E r \in GeoRects, rot \in Rotations :
          geo = [GeoIdle EXCEPT !.pc = "start", !.r = r, !.rot = rot]

NextGeometry == GeoToPdf \/ GeoBack

SpecGeometry == InitGeometry /\ [][NextGeometry]_vars

InitFlatten ==
    /\ AppInit
    /\ geo = GeoIdle /\ ex = ExIdle /\ ap = ApIdle /\ bf = BfIdle
    /\ \E d \in FlattenInputs : d.raisePage <= Len(d.pgs) /\ fl = FlStart(d)

NextFlatten == FlLoad \/ FlCatalog \/ FlPage \/ FlFlatten \/ FlSave

SpecFlatten == InitFlatten /\ [][NextFlatten]_vars

\* An editing session: it starts where onFileSelected has run to its end on
\* a file whose loads all succeed, and no further file is selected
InitEdit ==
    /\ RunsIdle
    /\ \E f \in Files :
          /\ f.fails = "none"
          /\ file = f.id
          /\ pages = PageHandles(f, "flat")
          /\ flattenedBytes = [src |-> f.id, n |-> f.n]
          /\ overlays = ExtractFields(f)
          /\ selectedId = IF Len(ExtractFields(f)) > 0
                          THEN ExtractFields(f)[1].id ELSE NoId
          /\ seeded = f.id
    /\ loading = FALSE
    /\ seqs = << [f |-> 0, pc |-> "done", existing |-> << >>, before |-> NoSession] >>
    /\ clock = 1
    /\ applied = NeverApplied
    /\ events = 0

NextEdit ==
    \/ \E id \in Ids(overlays) \cup {NoId} : Select(id)
    \/ \E type \in FieldTypes, now \in {clock, clock + 1} : addField(type, now)
    \/ \E next \in EditorChanges : updateOverlay(next)
    \/ \E id \in DeleteRequests : deleteOverlay(id)
    \/ applyAndDownload

SpecEdit == InitEdit /\ [][NextEdit]_vars

InitExtract ==
    /\ AppInit
    /\ geo = GeoIdle /\ fl = FlIdle /\ ap = ApIdle /\ bf = BfIdle
    /\ \E d \in ExDocs : ex = ExStart(d)

NextExtract == ExLoad \/ ExPageTurn \/ ExReturn

SpecExtract == InitExtract /\ [][NextExtract]_vars

InitApply ==
    /\ AppInit
    /\ geo = GeoIdle /\ fl = FlIdle /\ ex = ExIdle /\ bf = BfIdle
    /\ \E ovs \in ApLists, n \in 1..MaxPages, rot \in {0, 90} : ap = ApStart(ovs, n, rot)

NextApply == ApLoad \/ ApLoopTurn \/ ApSave

SpecApply == InitApply /\ [][NextApply]_vars

\* Extraction followed by an apply request without an edit in between: the
\* overlays the extractor returned are the ones applyAndDownload passes on,
\* with the page handles of the same document
ApplyExtracted ==
    /\ ex.pc = "done"
    /\ ap.pc = "idle"
    /\ ap' = ApStart(ex.extracted, ex.d.n, ex.d.rot)
    /\ UNCHANGED <<appVars, geo, fl, ex, bf>>

NextExtractApply ==
    ExLoad \/ ExPageTurn \/ ExReturn \/ ApplyExtracted \/ ApLoad \/ ApLoopTurn \/ ApSave

SpecExtractApply == InitExtract /\ [][NextExtractApply]_vars

\* The file loads alone, with the scheduling of the event loop: a sequence
\* whose awaited promise has settled is resumed
NextLoad ==
    \/ \E f \in Files : FileSelected(f)
    \/ \E s \in 1..Len(seqs) : ExtractLoaded(s)
    \/ \E s \in 1..Len(seqs) : ExtractDone(s)
    \/ \E s \in 1..Len(seqs) : FlattenDone(s)
    \/ \E s \in 1..Len(seqs) : PreviewDone(s)

Resumed(s) ==
    /\ s <= Len(seqs)
    /\ ExtractLoaded(s) \/ ExtractDone(s) \/ FlattenDone(s) \/ PreviewDone(s)

SpecLoad ==
    Init /\ [][NextLoad]_vars /\ \A s \in 1..MaxLoads : WF_vars(Resumed(s))

NextBuffers == BfRead \/ BfExtract \/ BfFlatten \/ BfPreview \/ BfApply

SpecBuffers == Init /\ [][NextBuffers]_vars

---------------------------------------------------------------------------
(* Claims                                                                  *)

\* C1: once a newer onFileSelected sequence has started, no step of an older
\* sequence writes pages, flattenedBytes, overlays, selectedId or loading, and
\* when every sequence has settled the session derives from the newest file
\* (the one the file state names, set by the newest selection).
SupersededLoadDiscarded ==
    /\ [][\A s \in 1..Len(seqs) :
            (s < Len(seqs) /\ seqs'[s].pc # seqs[s].pc)
                => UNCHANGED <<pages, flattenedBytes, overlays, selectedId, loading>>]_vars
    /\ []((/\ Len(seqs) > 0
           /\ \A s \in 1..Len(seqs) : seqs[s].pc \in {"done", "failed"}
           /\ seqs[Len(seqs)].pc = "done")
          => (/\ pages = PageHandles(FileById(file), "flat")
              /\ flattenedBytes.src = file
              /\ seeded = file))

\* C2: for a viewport rectangle of non-negative width and height, converting
\* to PDF space and back on the same viewport returns a rectangle whose summed
\* absolute difference from the input is below half a pixel.
RoundTripError ==
    Abs(geo.back.x - geo.r.x) + Abs(geo.back.y - geo.r.y)
    + Abs(geo.back.width - geo.r.width) + Abs(geo.back.height - geo.r.height)

RoundTripWithinTolerance ==
    (geo.pc = "back" /\ geo.r.width >= 0 /\ geo.r.height >= 0)
        => 2 * RoundTripError < U(1)

RoundTripDone ==
    /\ geo.pc = "back"
    /\ geo.rot = 270
    /\ geo.r.width = 9
    /\ geo.r.height = U(30)
    /\ geo.pdf.width = (U(30) * ScaleDen) \div ScaleNum

ApplyCreatesEveryField ==
    (applied.count > 0 /\ applied.novs > 0 /\ ~applied.badIndex)
        => (applied.err = "none" /\ applied.nfields >= applied.novs)

\* C5: an apply call with an overlay whose page index is out of range for the
\* flattened document or for the page handles fails as a whole: it returns no
\* bytes, triggers no download and leaves flattenedBytes, pages and overlays.
ApplyFailsOnBadIndex ==
    [][(applied'.count = applied.count + 1 /\ applied'.badIndex)
          => (/\ applied'.err # "none"
              /\ applied'.downloads = applied.downloads
              /\ UNCHANGED <<flattenedBytes, pages, overlays>>)]_vars

ApplyRejectedForIndex ==
    /\ applied.count = 1
    /\ applied.badIndex
    /\ applied.err = "ApplyIndexError"
    /\ applied.downloads = 0

\* C6: when a load of the selected file's bytes fails, file, pages,
\* flattenedBytes, overlays, selectedId and loading hold the values they had
\* before the file was selected.
FailedLoadLeavesNoState ==
    [][\A s \in 1..Len(seqs) :
          (seqs[s].pc # "failed" /\ seqs'[s].pc = "failed")
              => (/\ file' = seqs[s].before.file
                  /\ pages' = seqs[s].before.pages
                  /\ flattenedBytes' = seqs[s].before.flattenedBytes
                  /\ overlays' = seqs[s].before.overlays
                  /\ selectedId' = seqs[s].before.selectedId
                  /\ loading' = seqs[s].before.loading)]_vars

\* C7: every applyFields call made by applyAndDownload gets page handles,
\* flattened bytes and overlays that derive from the same uploaded file, and as
\* many page handles as the flattened document has pages.
ApplyArgumentsInLockstep ==
    applied.count > 0
        => (/\ applied.pagesSrc = applied.flatSrc
            /\ applied.ovSrc \in {0, applied.flatSrc}
            /\ applied.npages = applied.flatn)

\* C8: once the bytes have loaded, flattenWithPdfLib goes on to its save step
\* and returns bytes whether or not phase 1 or phase 2 raises; the only
\* failure the caller sees is the load's.
FlattenAbsorbsPhaseFailures ==
    /\ fl.pc = "failed" => (fl.doc.loadFails /\ fl.err = "LoadError")
    /\ fl.pc = "done" => fl.saved
    /\ fl.pc \in {"catalog", "pages", "phase2", "save"} => ENABLED NextFlatten

FlattenSavedAfterBothRaised ==
    /\ fl.pc = "done"
    /\ fl.saved
    /\ fl.phase1Raised
    /\ fl.phase2Raised

\* C9: in phase 1 the catalog removal and the per-page removals are attempted
\* independently: whatever raises, the removal is attempted on every page.
RemovalsAttemptedIndependently ==
    fl.pc \in {"phase2", "save", "done"}
        => (/\ fl.catalogAttempted
            /\ fl.attempted = 1..Len(fl.pgs))

\* C10: the ids of the overlays in the list are pairwise distinct, and an
\* edit leaves every overlay's id as it was.
OverlayIdsUniqueAndStable ==
    /\ [](\A j, k \in 1..Len(overlays) : j # k => overlays[j].id # overlays[k].id)
    /\ [][(events' = events + 1 /\ Len(overlays') = Len(overlays))
             => \A k \in 1..Len(overlays) : overlays'[k].id = overlays[k].id]_vars

\* C11: in every session state, also between the awaits of a load that
\* replaces an earlier document, every overlay's pageIndex is at least 0 and
\* below the number of current page handles.
OverlayPagesInRange ==
    \A k \in 1..Len(overlays) :
        overlays[k].pageIndex >= 0 /\ overlays[k].pageIndex < Len(pages)

\* C12: updateOverlay(next) replaces exactly one overlay, the one whose id
\* is next.id, and leaves the other overlays, the order and the length of the
\* list as they were; with no overlay of that id the list is unchanged.
UpdateReplacesExactlyOne ==
    [][\A next \in EditorChanges :
          updateOverlay(next) =>
            LET hit == { k \in 1..Len(overlays) : overlays[k].id = next.id }
            IN  /\ Len(overlays') = Len(overlays)
                /\ \A k \in (1..Len(overlays)) \ hit : overlays'[k] = overlays[k]
                /\ hit = {} => overlays' = overlays
                /\ hit # {} => /\ Cardinality(hit) = 1
                               /\ \A k \in hit : overlays'[k] = next]_vars

\* C13: no byte buffer object is handed to more than one library load: the
\* buffers of the extractor's load, the flattener's load, the preview reload
\* and every applyFields load are pairwise distinct objects.
NoBufferLoadedTwice ==
    \A i, j \in 1..Len(bf.loads) :
        i # j => bf.loads[i].buf # bf.loads[j].buf

\* The places <<page, position in the annotation list>> of the Widget
\* annotations of the extracted document
ExWidgetPlaces ==
    UNION { { <<p, j>> : j \in { j \in 1..Len(ex.d.anns[p]) :
                                   ex.d.anns[p][j].subtype = "Widget" } } :
            p \in 1..ex.d.n }

\* The number of widgets that come before place <<p, j>> in the document,
\* and before it on its own page
WidgetsBefore(p, j) ==
    Cardinality({ qk \in ExWidgetPlaces : qk[1] < p \/ (qk[1] = p /\ qk[2] < j) })

WidgetsBeforeOnPage(p, j) ==
    Cardinality({ qk \in ExWidgetPlaces : qk[1] = p /\ qk[2] < j })

\* The overlay extracted for the widget at place <<p, j>>, and its rectangle
\* converted to the viewport
ExOverlayAt(p, j) == ex.extracted[WidgetsBefore(p, j) + 1]

ExRectAt(p, j) ==
    pdfRectToViewportRect(ex.d.anns[p][j].rect,
                          getViewport(ex.d.rot, U(PageW), U(PageH)))

\* The field-type code of an annotation and the canonical type claimed for it
ClaimedCode(a) == IF a.fieldType # << >> THEN a.fieldType ELSE a.widgetType

ClaimedType(code) ==
    CASE code = Tx  -> "text"
      [] code = Ch  -> "dropdown"
      [] code = Sig -> "text"
      [] code = Btn -> "checkbox"
      [] code \in {RadioButton, UpperRadio} -> "radio"
      [] OTHER -> "text"

\* C14: every widget gets the canonical type of its field-type code: Tx text,
\* Ch dropdown, Sig text, Btn checkbox, another code containing "radio" in any
\* letter case radio, every remaining or missing code text.
TypeByFieldTypeCode ==
    ex.pc = "done" =>
        \A pj \in ExWidgetPlaces :
            ExOverlayAt(pj[1], pj[2]).type
                = ClaimedType(ClaimedCode(ex.d.anns[pj[1]][pj[2]]))

TypesOfOddCodesExtracted ==
    /\ ex.pc = "done"
    /\ ex.d.anns = << << ExSmallRadio, LinkAnnot, ExWidgetTypeOnly >>,
                      << ExUnknownCode, ExNoCode, ExSmallText >> >>
    /\ ex.extracted[1].type = "radio"
    /\ ex.extracted[2].type = "radio"
    /\ ex.extracted[3].type = "text"
    /\ ex.extracted[4].type = "text"

\* C15: the extracted overlays correspond one to one and in order to the
\* Widget annotations, page by page and in annotation-list order within a
\* page; other annotations give no overlay; pageIndex is the 0-based page.
ExtractOneToOneInOrder ==
    ex.pc = "done" =>
        /\ Len(ex.extracted) = Cardinality(ExWidgetPlaces)
        /\ \A pj \in ExWidgetPlaces :
              LET ov == ExOverlayAt(pj[1], pj[2])
                  a  == ex.d.anns[pj[1]][pj[2]]
              IN  /\ ov.pageIndex = pj[1] - 1
                  /\ ov.x = ExRectAt(pj[1], pj[2]).x
                  /\ ov.y = ExRectAt(pj[1], pj[2]).y
                  /\ a.fieldName # "" => ov.name = a.fieldName

WidgetsOfTwoPagesExtracted ==
    /\ ex.pc = "done"
    /\ ex.d.anns = << << LinkAnnot, ExSmallText, ExWideTick >>,
                      << ExSmallRadio, LinkAnnot, ExWidgetTypeOnly >> >>
    /\ Len(ex.extracted) = 4
    /\ ex.extracted[2].pageIndex = 0
    /\ ex.extracted[3].pageIndex = 1
    /\ ex.extracted[4].name = "W"

\* C16: a checkbox or radio overlay has width max(12, w) and height
\* max(12, h) of its converted rectangle, each clamped on its own; every
\* other overlay has width max(40, w) and height max(20, h).
ExtractClampsEachDimension ==
    ex.pc = "done" =>
        \A pj \in ExWidgetPlaces :
            LET ov == ExOverlayAt(pj[1], pj[2])
                r  == ExRectAt(pj[1], pj[2])
            IN  IF ov.type \in {"checkbox", "radio"}
                THEN ov.width = Max(U(12), r.width) /\ ov.height = Max(U(12), r.height)
                ELSE ov.width = Max(U(40), r.width) /\ ov.height = Max(U(20), r.height)

\* C17: the overlay's name is the widget's field name when present, else
\* its alternative text when present, else Field_<page number>_<index of the
\* widget on its page>.
ExtractNamePrecedence ==
    ex.pc = "done" =>
        \A pj \in ExWidgetPlaces :
            LET ov == ExOverlayAt(pj[1], pj[2])
                a  == ex.d.anns[pj[1]][pj[2]]
            IN  ov.name =
                  IF a.fieldName # "" THEN a.fieldName
                  ELSE IF a.alternativeText # "" THEN a.alternativeText
                  ELSE "Field_" \o ToString(pj[1]) \o "_"
                           \o ToString(WidgetsBeforeOnPage(pj[1], pj[2]))

NamesOfEveryKindExtracted ==
    /\ ex.pc = "done"
    /\ ex.d.anns = << << ExName, ExAgree >>,
                      << LinkAnnot, ExSmallText, ExWideTick >> >>
    /\ ex.extracted[1].name = "Name"
    /\ ex.extracted[3].name = "Field_2_0"
    /\ ex.extracted[4].name = "Tick"

\* C18: the overlay's value is the widget's field value when present; when
\* absent it is the empty string for text, date and dropdown overlays and the
\* boolean false for checkbox and radio overlays.
ExtractValueDefault ==
    ex.pc = "done" =>
        \A pj \in ExWidgetPlaces :
            LET ov == ExOverlayAt(pj[1], pj[2])
                a  == ex.d.anns[pj[1]][pj[2]]
            IN  ov.value =
                  IF a.fieldValue # Null THEN a.fieldValue
                  ELSE IF ov.type \in {"checkbox", "radio"} THEN Bool(FALSE)
                  ELSE Str("")

\* The PDF rectangle applyFields converts the k-th overlay to
ApRectOf(k) ==
    viewportToPdfRectFromViewportRect(
        ap.ovs[k].x, ap.ovs[k].y, ap.ovs[k].width, ap.ovs[k].height,
        getViewport(ap.pgs[ap.ovs[k].pageIndex + 1].rotate, U(PageW), U(PageH)))

\* C19: applyFields creates exactly one field per overlay: a text field for
\* text, date and dropdown, its text set only from a non-empty value; a
\* checkbox for checkbox, checked exactly when the value is true; a radio
\* group for radio, its option selected exactly when the value is true.
ApplyCreatesFieldPerOverlay ==
    ap.pc = "done" =>
        /\ Len(ap.acc.fields) = Len(ap.ovs)
        /\ \A k \in 1..Len(ap.ovs) :
              LET ov  == ap.ovs[k]
                  fld == ap.acc.fields[k]
              IN  IF ov.type \in {"text", "date", "dropdown"}
                  THEN fld.kind = "text" /\ fld.text = ov.value.s
                  ELSE fld.kind = ov.type /\ (fld.on <=> ov.value = Bool(TRUE))

TickFieldsAtLeastTwelvePoints ==
    \A k \in 1..Len(ap.acc.fields) :
        ap.acc.fields[k].kind \in {"checkbox", "radio"} =>
            ap.acc.fields[k].width >= U(12) /\ ap.acc.fields[k].height >= U(12)

SmallTickAppliedAtTwelve ==
    /\ ap.pc = "done"
    /\ ap.ovs = << NewOverlay("new_2", "checkbox") >>
    /\ ApRectOf(1).width < U(12)
    /\ ap.acc.fields[1].width = U(12)
    /\ ap.acc.fields[1].height = U(12)

\* C22: the field name applyFields assigns is the overlay's name when that is
\* non-empty, else Text_<id> for text, date and dropdown, Check_<id> for
\* checkbox and Radio_<id> for radio.
ApplyFieldNames ==
    ap.pc = "done" =>
        \A k \in 1..Len(ap.ovs) :
            ap.acc.fields[k].name =
                IF ap.ovs[k].name # "" THEN ap.ovs[k].name
                ELSE (CASE ap.ovs[k].type = "checkbox" -> "Check_"
                        [] ap.ovs[k].type = "radio"    -> "Radio_"
                        [] OTHER                       -> "Text_") \o ap.ovs[k].id

NamedAndUnnamedApplied ==
    /\ ap.pc = "done"
    /\ ap.ovs = << ApExtracted[1], NewOverlay("new_3", "date") >>
    /\ ap.acc.fields[1].name = "Name"
    /\ ap.acc.fields[2].name = "Text_new_3"

\* C23: every overlay of type text, date or dropdown has a string value and
\* every overlay of type checkbox or radio has a boolean value.
OverlayValueKinds ==
    \A k \in 1..Len(overlays) :
        overlays[k].value.kind =
            IF overlays[k].type \in {"checkbox", "radio"} THEN "boolean" ELSE "string"

\* C24: whatever is loaded, added, dragged, resized or typed into the numeric
\* inputs, every overlay's width and height are non-negative.
OverlaySizesNonNegative ==
    \A k \in 1..Len(overlays) : overlays[k].width >= 0 /\ overlays[k].height >= 0

\* C25: for every viewport rectangle and rotation, viewportToPdfRect-
\* FromViewportRect returns the component-wise minimum of the two mapped
\* corners as x and y and the absolute differences as width and height, which
\* are non-negative whichever corner maps lower; pdfRectToViewportRect
\* normalizes its result the same way.
CornersNormalized ==
    LET vp == getViewport(geo.rot, U(PageW), U(PageH))
        p1 == convertToPdfPoint(geo.r.x, geo.r.y, vp)
        p2 == convertToPdfPoint(geo.r.x + geo.r.width, geo.r.y + geo.r.height, vp)
        q1 == convertToViewportPoint(geo.pdf.x, geo.pdf.y, vp)
        q2 == convertToViewportPoint(geo.pdf.x + geo.pdf.width,
                                     geo.pdf.y + geo.pdf.height, vp)
    IN  /\ geo.pc \in {"pdf", "back"} =>
              /\ geo.pdf.x = Min(p1[1], p2[1])
              /\ geo.pdf.y = Min(p1[2], p2[2])
              /\ geo.pdf.width = Abs(p2[1] - p1[1])
              /\ geo.pdf.height = Abs(p2[2] - p1[2])
              /\ geo.pdf.width >= 0 /\ geo.pdf.height >= 0
        /\ geo.pc = "back" =>
              /\ geo.back.x = Min(q1[1], q2[1])
              /\ geo.back.y = Min(q1[2], q2[2])
              /\ geo.back.width = Abs(q2[1] - q1[1])
              /\ geo.back.height = Abs(q2[2] - q1[2])
              /\ geo.back.width >= 0 /\ geo.back.height >= 0

\* The second corner maps lower than the first in both coordinates
CornersSwappedByRotation ==
    LET vp == getViewport(geo.rot, U(PageW), U(PageH))
        p1 == convertToPdfPoint(geo.r.x, geo.r.y, vp)
        p2 == convertToPdfPoint(geo.r.x + geo.r.width, geo.r.y + geo.r.height, vp)
    IN  /\ geo.pc = "back"
        /\ geo.rot = 180
        /\ geo.r.width > 0 /\ geo.r.height > 0
        /\ p2[1] < p1[1]
        /\ geo.pdf.x = p2[1]
        /\ geo.pdf.width = p1[1] - p2[1]

\* C26: in every run of flattenWithPdfLib the library flatten is invoked
\* only after the hard delete has been attempted, on a form requested after
\* the deletion, and the document is saved only after both phases have been
\* attempted.
FlattenPhasesInOrder ==
    /\ (fl.pc = "phase2" \/ fl.phase2Attempted) => fl.catalogAttempted
    /\ (fl.phase2Attempted /\ ~fl.phase2Raised) => fl.formAfterDelete
    /\ (fl.pc = "save" \/ fl.saved) => (fl.catalogAttempted /\ fl.phase2Attempted)
    /\ fl.pc \in {"load", "catalog", "pages"} => (~fl.phase2Attempted /\ ~fl.saved)

FlattenedAfterHardDelete ==
    /\ fl.pc = "done"
    /\ fl.doc.acro
    /\ fl.attempted = 1..2
    /\ fl.phase2Attempted
    /\ ~fl.phase2Raised
    /\ fl.formAfterDelete
    /\ fl.saved

\* C27: a load sequence goes through its steps in the order read, extract,
\* flatten, preview reload, and seeds the overlays only with its last step;
\* the flattened bytes are set by the flatten step and no step of a load
\* sequence invokes the re-applicator.
LoadStepsInOrder ==
    [][\A s \in 1..Len(seqs) :
          seqs'[s].pc # seqs[s].pc =>
            /\ << seqs[s].pc, seqs'[s].pc >> \in
                  { << "read", "extract" >>, << "extract", "flatten" >>,
                    << "flatten", "preview" >>, << "preview", "done" >>,
                    << "read", "failed" >>, << "flatten", "failed" >>,
                    << "preview", "failed" >> }
            /\ applied' = applied
            /\ (overlays' # overlays \/ seeded' # seeded)
                  => (seqs[s].pc = "preview" /\ seqs'[s].pc = "done")
            /\ flattenedBytes' # flattenedBytes => seqs[s].pc = "flatten"]_vars

LoadSeededOverlaysLast ==
    /\ Len(seqs) = 1
    /\ seqs[1].pc = "done"
    /\ seeded = 1
    /\ overlays = ExtractFields(FileById(1))
    /\ pages = PageHandles(FileById(1), "flat")
    /\ flattenedBytes.src = 1
    /\ applied.count = 0

\* C28: deleteOverlay(id) removes exactly one overlay, the one with that id,
\* leaves the others as they were and in the same order, and sets the selection
\* to none exactly when the deleted overlay was the selected one.
DeleteRemovesExactlyOne ==
    [][\A id \in DeleteRequests :
          deleteOverlay(id) =>
            /\ \E k \in 1..Len(overlays) :
                  /\ overlays[k].id = id
                  /\ overlays' = [j \in 1..(Len(overlays) - 1) |->
                                    IF j < k THEN overlays[j] ELSE overlays[j + 1]]
            /\ selectedId' = IF selectedId = id THEN NoId ELSE selectedId]_vars

\* C29: every file selection that sets the loading flag is eventually
\* followed by a state in which the loading flag is false, whether the calls
\* of the sequence complete or fail.
LoadingEventuallyCleared == [](loading => <>(~loading))

\* A widget that is checked in the source: its field value names a state
\* other than the off state
WidgetChecked(a) ==
    a.fieldValue.kind = "string" /\ a.fieldValue.s \notin {"", "Off"}

\* C30: extracting a document and applying the overlays without an edit
\* keeps the checked state of every checkbox: an unchecked widget, its value
\* absent or naming the off state, gives an unchecked checkbox, a checked
\* widget a checked one.
ExtractApplyKeepsChecked ==
    (ex.pc = "done" /\ ap.pc = "done") =>
        \A pj \in ExWidgetPlaces :
            ExOverlayAt(pj[1], pj[2]).type = "checkbox" =>
                (ap.acc.fields[WidgetsBefore(pj[1], pj[2]) + 1].on
                    <=> WidgetChecked(ex.d.anns[pj[1]][pj[2]]))

============================================================================
